---- MODULE Spec2Model ----
(***************************************************************************)
(* State-machine model of the pyqtchart rendering engine:                  *)
(*   - DataSource (DataSource.py) with the cached CandleDrawer / BarDrawer *)
(*     of Drawer.py and the uncached CandleDrawer of CandleDrawer.py;      *)
(*   - BarChartWidget (BarChart.py): one frame of paintEvent;              *)
(*   - CandlestickView (legacy/main.py): the delayed y-range fit.          *)
(*                                                                         *)
(* Numbers.  Python floats are modelled by exact fixed-point or rational   *)
(* arithmetic: geometry is in units of 1/Unit, committed y ranges are      *)
(* rationals <<num, den>> in lowest terms.                                 *)
(***************************************************************************)
EXTENDS Integers, Sequences, FiniteSets, TLC

\* ------------------------------------------------------------------ bounds
MaxLen == 2          \* longest data source explored
MaxChartItems == 2   \* most items, over all sources, fed to a chart
MaxWindow == 2       \* largest index passed to set_x_range
MaxDrawers == 2      \* longest list of registered series explored
MaxDen == 20         \* frames start only from y ranges with denominators up to this
MaxTimers == 2       \* cap on the single-shot timers in flight
MaxRecords == 3      \* longest record list of the legacy view explored
MaxTickCount == 3    \* an axis has tick_count in -MaxTickCount..MaxTickCount, not 0
MaxAxis == 3         \* an axis range has its ends in 0..MaxAxis
MaxTicks == 6        \* values a generator is followed for

\* ------------------------------------------------- fixed-point geometry
Unit == 1000                      \* 1.0 in geometry units
body_width == 950                 \* CandleDrawer.body_width = 0.95
line_width == 150                 \* CandleDrawer.line_width = 0.15
minimum_box_height == 10          \* CandleDrawer.minimum_box_height = 0.01
bar_body_width == 1000            \* BarDrawer.body_width = 1

Abs(x) == IF x < 0 THEN -x ELSE x
Min2(a, b) == IF a <= b THEN a ELSE b
Max2(a, b) == IF a >= b THEN a ELSE b

\* ------------------------------------------------------------ data items
\* CandleData records (prices are integers here); the two candles of the
\* documented scenario plus one with open = close = low = high.
CandleData(o, l, h, c) == [open |-> o, low |-> l, high |-> h, close |-> c]
Candles == { CandleData(10, 9, 13, 12),
             CandleData(12, 10, 13, 11),
             CandleData(11, 11, 11, 11) }
\* scalar items of a histogram source
Scalars == { -1, 0, 2 }

\* the drawer classes: CandleDrawer and BarDrawer of Drawer.py, and the
\* cache-enabled CandleDrawer of Candle.py
CANDLE == "Drawer.CandleDrawer"
BAR == "Drawer.BarDrawer"
CANDLE_PY == "Candle.CandleDrawer"
Drawers == { CANDLE, BAR, CANDLE_PY }
DrawerPy == { CANDLE, BAR }
IsCandle(d) == d \in { CANDLE, CANDLE_PY }
Items(d) == IF IsCandle(d) THEN Candles ELSE Scalars
\* cache slots per item
SlotsPerItem(d) == IF IsCandle(d) THEN 2 ELSE 1

\* ------------------------------------------------------ Python list access
\* list[start:stop] with Python's clamping and negative-index wrap; the
\* result is a new list.
PyNorm(k, n) == IF k < 0 THEN Max2(k + n, 0) ELSE Min2(k, n)
PySlice(s, start, stop) ==
    LET lo == PyNorm(start, Len(s))
        hi == PyNorm(stop, Len(s))
    IN  IF lo >= hi THEN << >> ELSE SubSeq(s, lo + 1, hi)

\* Optional[QRectF]: None is the empty sequence, a rectangle r is <<r>>.
None == << >>
Some(r) == << r >>
QRectF(x, y, w, h) == [x |-> x, y |-> y, w |-> w, h |-> h]
\* truth value of a cache slot in "if i": None is false; a QRectF is true
\* exactly when it is valid (positive width and height).
Truthy(slot) == slot # None /\ slot[1].w > 0 /\ slot[1].h > 0
RECURSIVE Filter(_)
Filter(s) == IF s = << >> THEN << >>
             ELSE IF Truthy(Head(s)) THEN <<Head(s)[1]>> \o Filter(Tail(s))
             ELSE Filter(Tail(s))

VARIABLES
    attached,         \* the drawers constructed over a data source (_attach_data_source)
    data_list,        \* [Drawers -> Seq]: DataSource.data_list of each drawer's source
    use_cache,        \* [Drawers -> BOOLEAN]: the drawer's use_cache attribute
    _cache_end,       \* [Drawers -> Nat]: the drawer's _cache_end
    _cache_raising,   \* [candle drawers -> Seq]: CandleDrawer._cache_raising
    _cache_falling,   \* [candle drawers -> Seq]: CandleDrawer._cache_falling
    _cache_positive,  \* BarDrawer._cache_positive
    _cache_negative,  \* BarDrawer._cache_negative
    painter,          \* the frame's QPainter: what the Drawer.py draw call sent to it
    plain_painter,    \* what the uncached CandleDrawer.py drew for the same call
    _draw_config,     \* BarChartWidget._draw_config
    _drawers,         \* BarChartWidget._drawers
    rect,             \* <<width, height>> of the widget (self.rect(), self.size())
    frame,            \* the paintEvent in progress: where it is, its config copy
    datas,            \* CandlestickView.datas: the bar of each record, in append order
    showing_index_end,   \* CandlestickView.showing_index_end
    showing_records,  \* CandlestickView.showing_records (the records' x)
    x_scrolling,      \* range and tick count of the x axis
    redraw_scheduled,    \* CandlestickView.redraw_scheduled
    redraw_timers,    \* QTimer.singleShot(0, self.redraw) timers not yet fired
    redrawing,        \* redraw() has reset its flag and not yet returned
    redraw_y_scheduled,  \* CandlestickView.redraw_y_scheduled (records, or empty)
    fit_timers,       \* QTimer.singleShot(300, self._fit_y_range) timers not yet fired
    y_min, y_max, y_range,  \* the committed y range of the legacy view
    axis,             \* the axis of a helper: orientation, tick_type, tick_count
    axis_config,      \* the DrawConfig handed to the helper's prepare_draw
    generator,        \* the frame of _generate_sequence: where it is, i, end, step
    _tick_for_values, \* ValueAxisHelper._tick_for_values (its keys, in order)
    _bars,            \* BarAxisHelper._bars
    worldTransform,   \* painter.worldTransform() of the painter the ticks go to
    _last_transform,  \* AxisHelper._last_transform (None is << >>)
    label             \* draw_ticks: labels drawn so far, and how the last one ended

cacheVars == << _cache_end, _cache_raising, _cache_falling,
                _cache_positive, _cache_negative >>
chartVars == << _draw_config, _drawers, rect, frame >>
legacyVars == << datas, showing_index_end, showing_records, x_scrolling,
                redraw_scheduled, redraw_timers, redrawing, redraw_y_scheduled,
                fit_timers, y_min, y_max, y_range >>
axisVars == << axis, axis_config, generator, _tick_for_values, _bars,
               worldTransform, _last_transform, label >>
widgetVars == << chartVars, legacyVars, axisVars >>
vars == << attached, data_list, use_cache, cacheVars, painter, plain_painter,
          widgetVars >>

\* ------------------------------------------------------------- get_rect
\* CandleDrawer.get_rect: left = i + 0.5 - 0.5 * width, height floored.
CandleDrawer_get_rect(i, start_y, end_y, width) ==
    QRectF(i * Unit + Unit \div 2 - width \div 2,
           Min2(start_y, end_y) * Unit,
           width,
           Max2(Abs(start_y - end_y) * Unit, minimum_box_height))

\* BarDrawer.get_rect: no height floor.
BarDrawer_get_rect(i, start_y, end_y, width) ==
    QRectF(i * Unit + Unit \div 2 - width \div 2,
           Min2(start_y, end_y) * Unit,
           width,
           Abs(start_y - end_y) * Unit)

\* --------------------------------------------------------- classification
IsGrowing_strict(data) == data.open < data.close
IsGrowing(data) == data.open <= data.close

IsPositive_inclusive(data) == data >= 0
IsPositive(data) == data > 0

\* ------------------------------------------------------- _generate_cache
\* The cache of one drawer as a record: a = raising/positive bucket,
\* b = falling/negative bucket, end = _cache_end.
Cache(a, b, end) == [a |-> a, b |-> b, end |-> end]

\* one iteration of CandleDrawer._generate_cache for index i (0-based)
CandleDrawer_push_both(c, i, data) ==
    LET box == CandleDrawer_get_rect(i, data.open, data.close, body_width)
        line == CandleDrawer_get_rect(i, data.low, data.high, line_width)
    IN  Cache(c.a \o <<Some(box), Some(line)>>,
              c.b \o <<Some(box), Some(line)>>, c.end)
CandleDrawer_push(c, i, data) ==
    LET box == CandleDrawer_get_rect(i, data.open, data.close, body_width)
        line == CandleDrawer_get_rect(i, data.low, data.high, line_width)
    IN  IF IsGrowing(data)
        THEN Cache(c.a \o <<Some(box), Some(line)>>, c.b \o <<None, None>>, c.end)
        ELSE Cache(c.a \o <<None, None>>, c.b \o <<Some(box), Some(line)>>, c.end)

BarDrawer_push_both(c, i, data) ==
    LET box == BarDrawer_get_rect(i, 0, data, bar_body_width)
    IN  Cache(c.a \o <<Some(box)>>, c.b \o <<Some(box)>>, c.end)
BarDrawer_push(c, i, data) ==
    LET box == BarDrawer_get_rect(i, 0, data, bar_body_width)
    IN  IF IsPositive(data)
        THEN Cache(c.a \o <<Some(box)>>, c.b \o <<None>>, c.end)
        ELSE Cache(c.a \o <<None>>, c.b \o <<Some(box)>>, c.end)

\* for i in range(begin, end): ...; self._cache_end = end
RECURSIVE _generate_cache(_, _, _, _, _)
_generate_cache(d, c, source, begin, end) ==
    IF begin >= end THEN Cache(c.a, c.b, end)
    ELSE _generate_cache(d,
             IF IsCandle(d) THEN CandleDrawer_push(c, begin, source[begin + 1])
                            ELSE BarDrawer_push(c, begin, source[begin + 1]),
             source, begin + 1, end)

\* ------------------------------------------------------------ clear_cache
clear_cache_keep_end(c) == Cache(<< >>, << >>, c.end)
clear_cache(c) == Cache(<< >>, << >>, 0)

\* the drawer's current cache, and writing one back
CacheOf(d) == IF IsCandle(d)
              THEN Cache(_cache_raising[d], _cache_falling[d], _cache_end[d])
              ELSE Cache(_cache_positive, _cache_negative, _cache_end[d])
SetCache(d, c) ==
    /\ _cache_end' = [_cache_end EXCEPT ![d] = c.end]
    /\ IF IsCandle(d)
       THEN /\ _cache_raising' = [_cache_raising EXCEPT ![d] = c.a]
            /\ _cache_falling' = [_cache_falling EXCEPT ![d] = c.b]
            /\ UNCHANGED << _cache_positive, _cache_negative >>
       ELSE /\ _cache_positive' = c.a /\ _cache_negative' = c.b
            /\ UNCHANGED << _cache_raising, _cache_falling >>

\* Drawer.py on_data_source_data_removed(begin, end): the range is ignored
Drawer_data_removed_skip(c, begin, end) == c
Drawer_data_removed_tail(c, begin, end) ==
    IF begin < c.end THEN clear_cache(c) ELSE c
Drawer_on_data_source_data_removed(c, begin, end) == clear_cache(c)

\* Base.py DrawerBase.on_data_source_data_removed, which the CandleDrawer of
\* Candle.py inherits: pass
DrawerBase_on_data_source_data_removed(c, begin, end) == c

on_data_source_data_removed(d, c, begin, end) ==
    IF d \in DrawerPy THEN Drawer_on_data_source_data_removed(c, begin, end)
    ELSE DrawerBase_on_data_source_data_removed(c, begin, end)

\* ------------------------------------------------------------------ draw
\* the cache after the extension step of draw (Drawer.py 53-58, 139-145)
Drawer_draw_extend_rebuild(d, c, source, cache_on) ==
    LET c0 == IF ~cache_on THEN clear_cache(c) ELSE c
    IN  _generate_cache(d, c0, source, 0, Len(source))
Drawer_draw_extend_keep(d, c, source, cache_on) ==
    IF Len(source) > c.end
    THEN _generate_cache(d, c, source, c.end, Len(source)) ELSE c
Drawer_draw_extend(d, c, source, cache_on) ==
    LET c0 == IF ~cache_on THEN clear_cache(c) ELSE c
    IN  IF Len(source) > c0.end
        THEN _generate_cache(d, c0, source, c0.end, Len(source)) ELSE c0

\* the same step in Candle.py 69-79: without the cache the buckets are
\* emptied and a local cache_end of 0 is used; self._cache_end is written
\* only by _generate_cache.
Candle_draw_extend(d, c, source, cache_on) ==
    LET c0 == IF ~cache_on THEN Cache(<< >>, << >>, c.end) ELSE c
        cache_end == IF ~cache_on THEN 0 ELSE c.end
    IN  IF Len(source) > cache_end
        THEN _generate_cache(d, c0, source, cache_end, Len(source)) ELSE c0

draw_extend(d, c, source, cache_on) ==
    IF d \in DrawerPy THEN Drawer_draw_extend(d, c, source, cache_on)
    ELSE Candle_draw_extend(d, c, source, cache_on)

\* brushes: growing/positive colour "red", falling/negative colour "green"
Brushed(brush, rects) == [k \in 1..Len(rects) |-> [brush |-> brush, rect |-> rects[k]]]

\* the two drawRects calls of draw, as the sequence of (brush, rect) drawn
draw_rects(d, c, begin, end) ==
    LET k == SlotsPerItem(d)
    IN  Brushed("red", Filter(PySlice(c.a, begin * k, end * k)))
        \o Brushed("green", Filter(PySlice(c.b, begin * k, end * k)))

\* the uncached CandleDrawer.draw of CandleDrawer.py over a plain list:
\* one drawRect per box and line; indexing past the end raises IndexError
\* after the rectangles of the earlier items were drawn.
RECURSIVE plain_draw(_, _, _)
plain_draw(source, i, end) ==
    IF i >= end THEN [rects |-> << >>, raised |-> FALSE]
    ELSE IF i >= Len(source) \/ i < -Len(source)
         THEN [rects |-> << >>, raised |-> TRUE]
    ELSE LET data == source[IF i < 0 THEN i + Len(source) + 1 ELSE i + 1]
             brush == IF data.open <= data.close THEN "red" ELSE "green"
             box == CandleDrawer_get_rect(i, data.open, data.close, body_width)
             line == CandleDrawer_get_rect(i, data.low, data.high, line_width)
             rest == plain_draw(source, i + 1, end)
         IN  [rects |-> << [brush |-> brush, rect |-> box],
                           [brush |-> brush, rect |-> line] >> \o rest.rects,
              raised |-> rest.raised]

\* --------------------------------------------------------------- actions
Windows == 0..(MaxLen + 1)

\* A QPainter lives for one frame (BarChart.py 108-123): every operation
\* that is not a draw call runs between frames, with no painter open.
NoPaint == [drawer |-> "none", begin |-> 0, end |-> 0, calls |-> << >>]
FRAME == "BarChartWidget"
NoPlain == [rects |-> << >>, raised |-> FALSE]
PainterEnded == painter' = NoPaint /\ plain_painter' = NoPlain

\* DataSource.append(object)
append(d, object) ==
    /\ d \in attached
    /\ Len(data_list[d]) < MaxLen
    /\ data_list' = [data_list EXCEPT ![d] = Append(@, object)]
    /\ PainterEnded
    /\ UNCHANGED << attached, use_cache, cacheVars, widgetVars >>

\* DataSource.clear(): emits data_removed(0, len) to the attached drawer,
\* then empties the list.
clear(d) ==
    /\ d \in attached
    /\ SetCache(d, on_data_source_data_removed(d, CacheOf(d), 0, Len(data_list[d])))
    /\ data_list' = [data_list EXCEPT ![d] = << >>]
    /\ PainterEnded
    /\ UNCHANGED << attached, use_cache, widgetVars >>

\* the data_removed signal delivered for an arbitrary range
data_removed(d, begin, end) ==
    /\ d \in attached
    /\ SetCache(d, on_data_source_data_removed(d, CacheOf(d), begin, end))
    /\ PainterEnded
    /\ UNCHANGED << attached, data_list, use_cache, widgetVars >>

\* drawer.draw(config, painter) with config.begin, config.end = begin, end;
\* the uncached CandleDrawer draws the same list and window.
draw(d, begin, end) ==
    LET c == draw_extend(d, CacheOf(d), data_list[d], use_cache[d])
    IN  /\ d \in attached
        /\ SetCache(d, c)
        /\ painter' = [drawer |-> d, begin |-> begin, end |-> end,
                       calls |-> draw_rects(d, c, begin, end)]
        /\ plain_painter' = IF d = CANDLE
                            THEN plain_draw(data_list[d], begin, end)
                            ELSE NoPlain
        /\ UNCHANGED << attached, data_list, use_cache, widgetVars >>

\* the list behind a drawer that does not use its cache is changed in place
\* without any notification: an item replaced, inserted or removed.
RemoveAt(s, k) == SubSeq(s, 1, k - 1) \o SubSeq(s, k + 1, Len(s))
InsertAt(s, k, x) == SubSeq(s, 1, k - 1) \o <<x>> \o SubSeq(s, k, Len(s))
set_item(d, k, x) ==
    /\ d \in attached
    /\ ~use_cache[d] /\ k \in 1..Len(data_list[d]) /\ data_list[d][k] # x
    /\ data_list' = [data_list EXCEPT ![d] = [@ EXCEPT ![k] = x]]
    /\ PainterEnded
    /\ UNCHANGED << attached, use_cache, cacheVars, widgetVars >>
insert_item(d, k, x) ==
    /\ d \in attached
    /\ ~use_cache[d] /\ k \in 1..Len(data_list[d]) /\ Len(data_list[d]) < MaxLen
    /\ data_list' = [data_list EXCEPT ![d] = InsertAt(@, k, x)]
    /\ PainterEnded
    /\ UNCHANGED << attached, use_cache, cacheVars, widgetVars >>
remove_item(d, k) ==
    /\ d \in attached
    /\ ~use_cache[d] /\ k \in 1..Len(data_list[d])
    /\ data_list' = [data_list EXCEPT ![d] = RemoveAt(@, k)]
    /\ PainterEnded
    /\ UNCHANGED << attached, use_cache, cacheVars, widgetVars >>

\* ------------------------------------------------------ exact rationals
\* A Python float is modelled by the rational <<n, d>> in lowest terms, d > 0.
\* Operands are bound to their values once ({ ... : p \in { x } }) before
\* they are used.
RECURSIVE GCD(_, _)
GCD(a, b) == IF b = 0 THEN a
             ELSE CHOOSE g \in { GCD(v[1], v[2]) : v \in { << b, a % b >> } } : TRUE
Rat(n, d) ==
    IF d = 1 THEN << n, 1 >>
    ELSE CHOOSE r \in { IF d < 0 THEN << (-n) \div g, (-d) \div g >>
                                 ELSE << n \div g, d \div g >>
                        : g \in { GCD(Abs(n), Abs(d)) } } : TRUE
RatInt(n) == << n, 1 >>
\* sums over the least common denominator and products reduced crosswise,
\* so that no intermediate value leaves the machine integers
RatAdd(x, y) ==
    CHOOSE sum \in {
        IF p[1] = 0 THEN q
        ELSE IF q[1] = 0 THEN p
        ELSE IF p[2] = q[2] THEN Rat(p[1] + q[1], p[2])
        ELSE LET g == GCD(p[2], q[2])
             IN  Rat(p[1] * (q[2] \div g) + q[1] * (p[2] \div g), (p[2] \div g) * q[2])
        : p \in { x }, q \in { y } } : TRUE
RatSub(p, q) == RatAdd(p, << -q[1], q[2] >>)
RatMul(x, y) ==
    CHOOSE product \in {
        IF p[1] = 0 \/ q[1] = 0 THEN << 0, 1 >>
        ELSE IF p[2] = 1 /\ q[2] = 1 THEN << p[1] * q[1], 1 >>
        ELSE LET g1 == GCD(Abs(p[1]), q[2])
                 g2 == GCD(Abs(q[1]), p[2])
             IN  << (p[1] \div g1) * (q[1] \div g2), (p[2] \div g2) * (q[2] \div g1) >>
        : p \in { x }, q \in { y } } : TRUE
RatDiv(p, q) == RatMul(p, IF q[1] < 0 THEN << -q[2], -q[1] >> ELSE << q[2], q[1] >>)
\* comparisons over the least common denominator
RatLt(x, y) ==
    \E p \in { x }, q \in { y } :
        IF p[2] = q[2] THEN p[1] < q[1]
        ELSE LET g == GCD(p[2], q[2]) IN p[1] * (q[2] \div g) < q[1] * (p[2] \div g)
RatLe(x, y) ==
    \E p \in { x }, q \in { y } :
        IF p[2] = q[2] THEN p[1] <= q[1]
        ELSE LET g == GCD(p[2], q[2]) IN p[1] * (q[2] \div g) <= q[1] * (p[2] \div g)
RatMax(p, q) == IF RatLe(q, p) THEN p ELSE q

\* ------------------------------------------------------------ QTransform
\* The frame's transforms only scale and translate: a QTransform is its
\* m11, m22 (scale) and dx, dy (translation), all rationals; its other
\* entries stay 0 (m33 stays 1).
QTransform(m11, m22, dx, dy) == [m11 |-> m11, m22 |-> m22, dx |-> dx, dy |-> dy]
fromTranslate(dx, dy) == QTransform(RatInt(1), RatInt(1), dx, dy)
fromScale(sx, sy) == QTransform(sx, sy, RatInt(0), RatInt(0))
\* a * b (a *= b): the map of a followed by the map of b
TransformMul(a, b) ==
    QTransform(RatMul(a.m11, b.m11), RatMul(a.m22, b.m22),
               RatAdd(RatMul(a.dx, b.m11), b.dx), RatAdd(RatMul(a.dy, b.m22), b.dy))
\* t.rotate(180, Qt.XAxis): the half turn about the x axis (y to -y, cos
\* exactly -1 and sin exactly 0) takes place before t
rotate_180_XAxis(t) ==
    TransformMul(QTransform(RatInt(1), RatInt(-1), RatInt(0), RatInt(0)), t)
\* t.map(point), the point given as a pair of rationals
map(t, point) ==
    << RatAdd(RatMul(point[1], t.m11), t.dx), RatAdd(RatMul(point[2], t.m22), t.dy) >>
\* t.inverted()[0]: the inverse of t, or the identity when t is singular
inverted(t) ==
    IF t.m11[1] = 0 \/ t.m22[1] = 0
    THEN QTransform(RatInt(1), RatInt(1), RatInt(0), RatInt(0))
    ELSE QTransform(RatDiv(RatInt(1), t.m11), RatDiv(RatInt(1), t.m22),
                    RatDiv(RatSub(RatInt(0), t.dx), t.m11),
                    RatDiv(RatSub(RatInt(0), t.dy), t.m22))

\* --------------------------------------------------------- Python floats
\* The tick values are Python floats (IEEE 754 binary64) that are added up
\* one step at a time, so their rounding is kept: a float is its sign and
\* its magnitude as a whole multiple of 2^-FracBits, the magnitude held in
\* three limbs << high, middle, low >> of LimbBits bits each, and every
\* operation rounds its exact result to 53 significant bits, ties to even.
\* This is exact for magnitudes below 2^7 and for quotients that are 0 or
\* at least 2^-4, which is what the bounds of the axis model produce.
FracBits == 56
LimbBits == 21
Significand == 53
RECURSIVE Pow2(_)
Pow2(k) == IF k = 0 THEN 1 ELSE 2 * Pow2(k - 1)
BitLen(n) == CHOOSE k \in 0..LimbBits :
                \/ k = 0 /\ n = 0
                \/ k > 0 /\ Pow2(k - 1) <= n /\ n < Pow2(k)
\* limbs brought back into 0..2^LimbBits - 1, carrying (or borrowing) upwards
Carry(a) ==
    LET middle == a[2] + (a[3] \div Pow2(LimbBits))
    IN  << a[1] + (middle \div Pow2(LimbBits)), middle % Pow2(LimbBits),
           a[3] % Pow2(LimbBits) >>
MagLt(a, b) ==
    \/ a[1] < b[1]
    \/ a[1] = b[1] /\ a[2] < b[2]
    \/ a[1] = b[1] /\ a[2] = b[2] /\ a[3] < b[3]
\* the magnitude a + r/m (0 <= r < m) rounded to Significand bits, ties to even
RoundToEven(a, r, m) ==
    LET bits == IF a[1] > 0 THEN 2 * LimbBits + BitLen(a[1])
                ELSE IF a[2] > 0 THEN LimbBits + BitLen(a[2])
                ELSE BitLen(a[3])
        drop == Max2(bits - Significand, 0)
        unit == Pow2(drop)
        low == a[3] % unit
        dropped_twice == 2 * (low * m + r)
        odd == (a[3] \div unit) % 2 = 1
        up == dropped_twice > unit * m \/ (dropped_twice = unit * m /\ odd)
    IN  Carry(<< a[1], a[2], a[3] - low + (IF up THEN unit ELSE 0) >>)
\* float(k) of an int k
FloatOfInt(k) ==
    [neg |-> k < 0, mag |-> Carry(<< Abs(k) * Pow2(FracBits - 2 * LimbBits), 0, 0 >>)]
\* d / n of two ints (true division), n # 0: the quotient, limb by limb,
\* and its remainder, rounded once
FloatTrueDiv(d, n) ==
    LET m == Abs(n)
        high == Abs(d) * Pow2(FracBits - 2 * LimbBits)
        middle == (high % m) * Pow2(LimbBits)
        low == (middle % m) * Pow2(LimbBits)
    IN  [neg |-> d # 0 /\ ((d < 0) # (n < 0)),
         mag |-> RoundToEven(Carry(<< high \div m, middle \div m, low \div m >>),
                             low % m, m)]
\* x + y
FloatAdd(x, y) ==
    IF x.neg = y.neg
    THEN [neg |-> x.neg,
          mag |-> RoundToEven(Carry(<< x.mag[1] + y.mag[1], x.mag[2] + y.mag[2],
                                       x.mag[3] + y.mag[3] >>), 0, 1)]
    ELSE IF x.mag = y.mag THEN FloatOfInt(0)
    ELSE LET big == IF MagLt(x.mag, y.mag) THEN y ELSE x
             small == IF MagLt(x.mag, y.mag) THEN x ELSE y
         IN  [neg |-> big.neg,
              mag |-> RoundToEven(Carry(<< big.mag[1] - small.mag[1],
                                           big.mag[2] - small.mag[2],
                                           big.mag[3] - small.mag[3] >>), 0, 1)]
\* x < y
FloatLt(x, y) ==
    IF x.neg # y.neg THEN x.neg
    ELSE IF x.neg THEN MagLt(y.mag, x.mag) ELSE MagLt(x.mag, y.mag)

\* ------------------------------------------------------------ AxisHelper
HORIZONTAL == "Orientation.HORIZONTAL"
VERTICAL == "Orientation.VERTICAL"
TICK_VALUE == "TickType.VALUE"
TICK_BAR == "TickType.BAR"

\* ValueAxisHelper.prepare_draw / BarAxisHelper.prepare_draw up to the
\* first next() of _generate_sequence(begin, end, step): the range is
\* taken from the config by the orientation, the step is computed, and a
\* vertical value axis moves begin up by one step
prepare_draw_axis ==
    LET horizontal == axis.orientation = HORIZONTAL
        begin == IF horizontal THEN axis_config.begin ELSE axis_config.y_low
        end == IF horizontal THEN axis_config.end ELSE axis_config.y_high
        step == FloatTrueDiv(end - begin, axis.tick_count)
    IN  /\ generator.pc = "idle"
        /\ generator' = [pc |-> "running",
                         i |-> IF axis.tick_type = TICK_VALUE /\ ~horizontal
                               THEN FloatAdd(FloatOfInt(begin), step)
                               ELSE FloatOfInt(begin),
                         end |-> end, step |-> step, values |-> << >>]
        /\ UNCHANGED << axis, axis_config, _tick_for_values, _bars,
                        worldTransform, _last_transform, label >>

\* one turn of the loop of _generate_sequence, driven by the comprehension
\* of prepare_draw: while i < end a value is yielded and i += step; when
\* the loop ends the comprehension's result is stored (of a BarInfo its
\* head and its tail, bar_tail = bar_head + step)
_generate_sequence ==
    /\ generator.pc = "running"
    /\ IF FloatLt(generator.i, FloatOfInt(generator.end))
       THEN /\ Len(generator.values) < MaxTicks
            /\ generator' = [generator EXCEPT
                                !.values = Append(@, generator.i),
                                !.i = FloatAdd(@, generator.step)]
            /\ UNCHANGED << _tick_for_values, _bars >>
       ELSE /\ generator' = [generator EXCEPT !.pc = "done"]
            /\ IF axis.tick_type = TICK_VALUE
               THEN /\ _tick_for_values' = generator.values
                    /\ UNCHANGED _bars
               ELSE /\ _bars' = [k \in DOMAIN generator.values |->
                                    [head |-> generator.values[k],
                                     tail |-> FloatAdd(generator.values[k],
                                                       generator.step)]]
                    /\ UNCHANGED _tick_for_values
    /\ UNCHANGED << axis, axis_config, worldTransform, _last_transform, label >>

\* _switch_to_pos(pos, painter): the new _last_transform and world transform
_switch_to_pos(pos) ==
    [_last_transform |-> worldTransform,
     worldTransform |-> TransformMul(worldTransform,
                                     fromTranslate(RatInt(pos[1]), RatInt(pos[2])))]

\* one turn of the loop of draw_ticks_horizontal / draw_ticks_vertical:
\* _switch_to_pos, draw_tick_for_value, _switch_back.  When
\* draw_tick_for_value raises, the exception leaves draw_ticks at once.
draw_ticks(pos, raises) ==
    LET labels == IF axis.tick_type = TICK_VALUE THEN _tick_for_values ELSE _bars
        switched == _switch_to_pos(pos)
    IN  /\ generator.pc = "done"
        /\ label.pc # "raised"
        /\ label.drawn < Len(labels)
        /\ _last_transform' = switched._last_transform
        /\ IF raises
           THEN /\ worldTransform' = switched.worldTransform
                /\ label' = [pc |-> "raised", drawn |-> label.drawn]
           ELSE /\ worldTransform' = switched._last_transform
                /\ label' = [pc |-> "drawn", drawn |-> label.drawn + 1]
        /\ UNCHANGED << axis, axis_config, generator, _tick_for_values, _bars >>

\* ------------------------------------------------------- BarChartWidget
y_scale == << 11, 10 >>           \* ExtraDrawConfig.y_scale = 1.1
padding == 80                     \* ExtraDrawConfig: padding = 80
widget_width == 640               \* self.rect() of the widget
widget_height == 480

\* scale_from_mid(low, high, ratio)
scale_from_mid_full(low, high, ratio) ==
    LET mid == RatDiv(RatAdd(low, high), RatInt(2))
        scaled_range_2 == RatMul(RatSub(high, low), ratio)
    IN  << RatSub(mid, scaled_range_2), RatAdd(mid, scaled_range_2) >>
scale_from_mid(low, high, ratio) ==
    LET mid == RatDiv(RatAdd(low, high), RatInt(2))
        scaled_range_2 == RatMul(RatDiv(RatSub(high, low), RatInt(2)), ratio)
    IN  << RatSub(mid, scaled_range_2), RatAdd(mid, scaled_range_2) >>

\* min(showing_data, key=...) / max(showing_data, key=...) over a non-empty list
SeqMin(s) == CHOOSE v \in { s[k] : k \in DOMAIN s } : \A k \in DOMAIN s : v <= s[k]
SeqMax(s) == CHOOSE v \in { s[k] : k \in DOMAIN s } : \A k \in DOMAIN s : v >= s[k]

\* CandleDrawer.prepare_draw / BarDrawer.prepare_draw on a copy of config
prepare_draw(d, config) ==
    LET showing_data == PySlice(data_list[d], config.begin, config.end)
        low == IF IsCandle(d)
               THEN SeqMin([k \in DOMAIN showing_data |-> showing_data[k].low])
               ELSE SeqMin(showing_data)
        high == IF IsCandle(d)
                THEN SeqMax([k \in DOMAIN showing_data |-> showing_data[k].high])
                ELSE SeqMax(showing_data)
    IN  IF showing_data # << >>
        THEN [config EXCEPT !.y_low = RatInt(low), !.y_high = RatInt(high)]
        ELSE config

\* BarChartWidget.plot_area: QRectF(self.rect()).adjusted(l, t, -r, -b) for
\* config.paddings = (l, t, r, b)
plot_area(config) ==
    [left |-> config.paddings[1], top |-> config.paddings[2],
     width |-> rect[1] - config.paddings[1] - config.paddings[3],
     height |-> rect[2] - config.paddings[2] - config.paddings[4]]

\* _coordinate_transform(input, output): input's top-left corner to the
\* origin, scale by the ratio of the sizes, the origin to output's corner
_coordinate_transform(input, output) ==
    LET rx == RatDiv(RatInt(output.width), RatInt(input.width))
        ry == RatDiv(RatInt(output.height), input.height)
        t0 == fromTranslate(RatInt(-input.left), RatSub(RatInt(0), input.top))
        t1 == TransformMul(t0, fromScale(rx, ry))
    IN  TransformMul(t1, fromTranslate(RatInt(output.left), RatInt(output.top)))

\* _prepare_drawing_cache: the data rectangle (spans floored to 1), the
\* plot rectangle, the transform between them flipped about the widget's
\* height, and its inverse
_prepare_drawing_cache(config) ==
    LET drawer_area == [left |-> config.begin, top |-> config.y_low,
                        width |-> Max2(config.end - config.begin, 1),
                        height |-> RatMax(RatSub(config.y_high, config.y_low), RatInt(1))]
        transform == TransformMul(_coordinate_transform(drawer_area, plot_area(config)),
                        rotate_180_XAxis(fromTranslate(RatInt(0), RatInt(rect[2]))))
    IN  [config EXCEPT !.drawing_cache =
            [drawer_transform |-> transform,
             ui_transform |-> inverted(transform),
             drawer_area |-> drawer_area,
             plot_area |-> plot_area(config)]]

\* "if has_showing_data": a Python int is true when it is not 0
has_showing_data(config) == config.end - config.begin # 0

\* the range fit of _prepare_painting (BarChart.py 179-183) from the
\* configs the series returned
_prepare_painting_fit(config, preferred_configs) ==
    LET y_low == (CHOOSE k \in DOMAIN preferred_configs :
                    \A j \in DOMAIN preferred_configs :
                        RatLe(preferred_configs[k].y_low, preferred_configs[j].y_low))
        y_high == (CHOOSE k \in DOMAIN preferred_configs :
                    \A j \in DOMAIN preferred_configs :
                        RatLe(preferred_configs[j].y_high, preferred_configs[k].y_high))
        scaled == scale_from_mid(preferred_configs[y_low].y_low,
                                 preferred_configs[y_high].y_high, config.y_scale)
    IN  [config EXCEPT !.y_low = scaled[1], !.y_high = scaled[2]]

\* _prepare_painting(config)
_prepare_painting(config) ==
    LET c1 == [config EXCEPT !.has_showing_data = config.end - config.begin]
        preferred_configs == [k \in DOMAIN _drawers |-> prepare_draw(_drawers[k], c1)]
    IN  _prepare_drawing_cache(
            IF has_showing_data(c1) /\ _drawers # << >>
            THEN _prepare_painting_fit(c1, preferred_configs)
            ELSE c1)

\* no paintEvent in progress
NoFrame == [pc |-> "idle", config |-> << >>, preferred_configs |-> << >>]

\* one call of the frame: who did what, with the rectangles drawn
Call(op, who, rects) == [op |-> op, who |-> who, rects |-> rects]
Axes == << "axis_x", "axis_y" >>

\* the cache of drawer d after the frame drew every registered series
FrameCache(d, config) ==
    IF has_showing_data(config) /\ \E k \in DOMAIN _drawers : _drawers[k] = d
    THEN draw_extend(d, CacheOf(d), data_list[d], use_cache[d])
    ELSE CacheOf(d)

\* the calls of one paintEvent, in order: the range fit, _paint_axis (grid
\* lines, then labels), _paint_drawers, the border
FrameCalls(config) ==
    (IF has_showing_data(config) /\ _drawers # << >>
     THEN [k \in DOMAIN _drawers |-> Call("prepare_draw", _drawers[k], << >>)]
     ELSE << >>)
    \o [k \in 1..2 |-> Call("axis.prepare_draw", Axes[k], << >>)]
    \o (IF has_showing_data(config)
        THEN [k \in 1..2 |-> Call("draw_grid", Axes[k], << >>)]
             \o [k \in 1..2 |-> Call("draw_labels", Axes[k], << >>)]
        ELSE << >>)
    \o (IF has_showing_data(config)
        THEN [k \in DOMAIN _drawers |->
                Call("draw", _drawers[k],
                     draw_rects(_drawers[k], FrameCache(_drawers[k], config),
                                config.begin, config.end))]
        ELSE << >>)
    \o << Call("drawRect", "plot_area", << >>) >>

\* add_drawer(drawer)
add_drawer(d) ==
    /\ Len(_drawers) < MaxDrawers
    /\ _drawers' = Append(_drawers, d)
    /\ PainterEnded
    /\ UNCHANGED << attached, data_list, use_cache, cacheVars, _draw_config, rect, frame,
                    legacyVars, axisVars >>

\* set_x_range(begin, end)
set_x_range(begin, end) ==
    /\ _draw_config' = [_draw_config EXCEPT !.begin = begin, !.end = end]
    /\ PainterEnded
    /\ UNCHANGED << attached, data_list, use_cache, cacheVars, _drawers, rect, frame,
                    legacyVars, axisVars >>

\* paintEvent(event): the whole frame
paintEvent ==
    \E config \in { _prepare_painting(_draw_config) } :
        /\ _draw_config.y_low[2] <= MaxDen /\ _draw_config.y_high[2] <= MaxDen
        /\ painter' = [drawer |-> FRAME, begin |-> config.begin, end |-> config.end,
                       calls |-> FrameCalls(config)]
        /\ plain_painter' = NoPlain
        /\ _cache_end' = [d \in Drawers |-> FrameCache(d, config).end]
        /\ _cache_raising' = [d \in DOMAIN _cache_raising |-> FrameCache(d, config).a]
        /\ _cache_falling' = [d \in DOMAIN _cache_falling |-> FrameCache(d, config).b]
        /\ _cache_positive' = FrameCache(BAR, config).a
        /\ _cache_negative' = FrameCache(BAR, config).b
        /\ _draw_config' = config
        /\ UNCHANGED << attached, data_list, use_cache, _drawers, rect, frame, legacyVars, axisVars >>

\* ------------------------------------------ paintEvent, one step at a time
\* The same frame in the steps at which the host or a callback can get in
\* between: the config copy, each series' prepare_draw, and the rest.

\* the calls of a frame after its range fit
PaintCalls(config) ==
    LET calls == FrameCalls(config)
        fitted == IF has_showing_data(config) /\ _drawers # << >> THEN Len(_drawers) ELSE 0
    IN  SubSeq(calls, fitted + 1, Len(calls))

\* s.prepare_draw(copy(config)) (BarChart.py 178): the frame's config after
\* the call and the config the series returned.  The series writes y_low
\* and y_high into the object it was given, which is a copy.
prepare_draw_call_nocopy(d, config) ==
    [config |-> prepare_draw(d, config), returned |-> prepare_draw(d, config)]
prepare_draw_call(d, config) ==
    [config |-> config, returned |-> prepare_draw(d, config)]

\* paintEvent up to the test "if has_showing_data and self._drawers"
paintEvent_begin ==
    /\ frame.pc = "idle"
    /\ _draw_config.y_low[2] <= MaxDen /\ _draw_config.y_high[2] <= MaxDen
    /\ LET config == [_draw_config EXCEPT
                        !.has_showing_data = _draw_config.end - _draw_config.begin]
       IN  frame' = [pc |-> IF has_showing_data(config) /\ _drawers # << >>
                            THEN "prepare" ELSE "paint",
                     config |-> config, preferred_configs |-> << >>]
    /\ PainterEnded
    /\ UNCHANGED << attached, data_list, use_cache, cacheVars, _draw_config, _drawers,
                    rect, legacyVars, axisVars >>

\* the next series' prepare_draw of the list comprehension
paintEvent_prepare_draw ==
    /\ frame.pc = "prepare"
    /\ Len(frame.preferred_configs) < Len(_drawers)
    /\ LET call == prepare_draw_call(_drawers[Len(frame.preferred_configs) + 1],
                                     frame.config)
       IN  frame' = [frame EXCEPT !.config = call.config,
                                  !.preferred_configs = Append(@, call.returned)]
    /\ UNCHANGED << attached, data_list, use_cache, cacheVars, painter, plain_painter,
                    _draw_config, _drawers, rect, legacyVars, axisVars >>

\* the rest of paintEvent: the fit, the drawing cache, the painting, and
\* "self._draw_config = config"
paintEvent_end ==
    /\ \/ frame.pc = "paint"
       \/ frame.pc = "prepare" /\ Len(frame.preferred_configs) >= Len(_drawers)
    /\ \E config \in { _prepare_drawing_cache(
                            IF frame.pc = "prepare"
                            THEN _prepare_painting_fit(frame.config, frame.preferred_configs)
                            ELSE frame.config) } :
        /\ painter' = [drawer |-> FRAME, begin |-> config.begin, end |-> config.end,
                       calls |-> [k \in DOMAIN frame.preferred_configs |->
                                    Call("prepare_draw", _drawers[k], << >>)]
                                 \o PaintCalls(config)]
        /\ plain_painter' = NoPlain
        /\ _cache_end' = [d \in Drawers |-> FrameCache(d, config).end]
        /\ _cache_raising' = [d \in DOMAIN _cache_raising |-> FrameCache(d, config).a]
        /\ _cache_falling' = [d \in DOMAIN _cache_falling |-> FrameCache(d, config).b]
        /\ _cache_positive' = FrameCache(BAR, config).a
        /\ _cache_negative' = FrameCache(BAR, config).b
        /\ _draw_config' = config
    /\ frame' = NoFrame
    /\ UNCHANGED << attached, data_list, use_cache, _drawers, rect, legacyVars, axisVars >>

\* ------------------------------------------- CandlestickView (legacy)
price_window_scale == << 11, 10 >>   \* self.price_window_scale = 1.1
y_scale_threshold == << 11, 10 >>    \* self.y_scale_threshold = 1.1
days_to_show == 20                   \* self.days_to_show = 20
max_padding_days == 3                \* self.max_padding_days = 3

\* BarData: the prices that the y range depends on
BarData(l, h) == [low |-> l, high |-> h]
Bars == { BarData(9, 13), BarData(10, 13), BarData(5, 20) }

\* get_price_range(datas) over the records' x (0-based positions in datas)
get_price_range(records) ==
    << SeqMin([k \in DOMAIN records |-> datas[records[k] + 1].low]),
       SeqMax([k \in DOMAIN records |-> datas[records[k] + 1].high]) >>

\* calculate_new_y_range(records_to_show)
calculate_new_y_range(records) ==
    CHOOSE new \in {
        LET price_low == RatInt(price[1])
            price_high == RatInt(price[2])
            price_mid == RatDiv(RatAdd(price_low, price_high), RatInt(2))
            price_length_2_scaled ==
                RatMul(RatDiv(RatSub(price_high, price_low), RatInt(2)), price_window_scale)
        IN  << RatSub(price_mid, price_length_2_scaled),
               RatAdd(price_mid, price_length_2_scaled) >>
        : price \in { get_price_range(records) } } : TRUE

\* the condition of _schedule_fit_y_range (legacy/main.py 226-230)
NeedsFit(records) ==
    \E new \in { calculate_new_y_range(records) } :
        LET new_y_range == RatSub(new[2], new[1])
        IN  \/ RatLt(new[1], y_min)
            \/ RatLt(y_max, new[2])
            \/ RatLt(RatMul(y_range, y_scale_threshold), new_y_range)
            \/ RatLt(new_y_range, RatDiv(y_range, y_scale_threshold))

\* _schedule_fit_y_range(records_to_show): the new redraw_y_scheduled and
\* whether a timer is started.  A non-empty list is true, False and None
\* (both the empty sequence here) are false.
_schedule_fit_y_range_unguarded(records) ==
    IF NeedsFit(records)
    THEN [scheduled |-> records, timer |-> 1]
    ELSE [scheduled |-> redraw_y_scheduled, timer |-> 0]
_schedule_fit_y_range(records) ==
    IF redraw_y_scheduled # << >>
    THEN [scheduled |-> redraw_y_scheduled, timer |-> 0]
    ELSE IF NeedsFit(records)
         THEN [scheduled |-> records, timer |-> 1]
         ELSE [scheduled |-> redraw_y_scheduled, timer |-> 0]

\* the records redraw selects (legacy/main.py 153-164), as their x
records_to_show ==
    LET xs == [k \in DOMAIN datas |-> k - 1]
        days == Min2(Len(datas), days_to_show)
    IN  IF showing_index_end >= 0
        THEN PySlice(xs, -(days - showing_index_end), Len(xs))
        ELSE LET head == PySlice(xs, 0, showing_index_end)
             IN  PySlice(head, -days, Len(head))

\* fit_x_range(records_to_show, empty_columns), in units of 1/2
fit_x_range(records, empty_columns) ==
    LET start == 2 * records[1] - 1
        end == 2 * (records[Len(records)] + empty_columns) + 1
        columns == Len(records) + 1 + empty_columns
    IN  IF start # x_scrolling[1] \/ end # x_scrolling[2]
        THEN << start, end, columns >> ELSE x_scrolling

\* schedule_redraw(): the new redraw_scheduled and timer count
schedule_redraw_unguarded ==
    /\ redraw_scheduled' = TRUE
    /\ redraw_timers' = redraw_timers + 1
schedule_redraw ==
    /\ redraw_scheduled' = TRUE
    /\ redraw_timers' = IF redraw_scheduled THEN redraw_timers ELSE redraw_timers + 1

\* append_record(bar_data)
append_record(bar_data) ==
    /\ Len(datas) < MaxRecords
    /\ redraw_scheduled \/ redraw_timers < MaxTimers
    /\ datas' = Append(datas, bar_data)
    /\ schedule_redraw
    /\ UNCHANGED << showing_index_end, showing_records, x_scrolling, redrawing,
                    redraw_y_scheduled, fit_timers, y_min, y_max, y_range >>

\* set_showing_index_end(showing_index_end)
set_showing_index_end(index_end) ==
    LET clamped == Max2(Min2(index_end, max_padding_days), -Len(datas) + 1)
    IN  /\ redraw_scheduled \/ redraw_timers < MaxTimers
        /\ clamped # showing_index_end
        /\ showing_index_end' = clamped
        /\ schedule_redraw
        /\ UNCHANGED << datas, showing_records, x_scrolling, redrawing,
                        redraw_y_scheduled, fit_timers, y_min, y_max, y_range >>

\* redraw() after its flag is reset (legacy/main.py 153-175): the records
\* are selected, the x range is fitted and the y fit is scheduled
redraw_selected ==
    LET empty_columns == IF showing_index_end >= 0 THEN showing_index_end ELSE 0
    IN  \E records \in { records_to_show } :
            IF Min2(Len(datas), days_to_show) < 2 \/ records = << >>
            THEN UNCHANGED << showing_records, x_scrolling, redraw_y_scheduled,
                              fit_timers >>
            ELSE \E fit \in { _schedule_fit_y_range(records) } :
                    /\ fit_timers + fit.timer <= MaxTimers
                    /\ x_scrolling' = fit_x_range(records, empty_columns)
                    /\ redraw_y_scheduled' = fit.scheduled
                    /\ fit_timers' = fit_timers + fit.timer
                    /\ showing_records' = records

\* redraw(), run by its single-shot timer
redraw ==
    /\ redraw_timers > 0
    /\ ~redrawing
    /\ redraw_timers' = redraw_timers - 1
    /\ redraw_scheduled' = FALSE
    /\ redraw_selected
    /\ UNCHANGED << datas, showing_index_end, redrawing, y_min, y_max, y_range >>

\* redraw() in two steps, for callers that run between them: the timer
\* fires and the flag is reset under the lock (legacy/main.py 149-151) ...
redraw_begin_keeps_flag ==
    /\ redraw_timers > 0
    /\ ~redrawing
    /\ redraw_timers' = redraw_timers - 1
    /\ redrawing' = TRUE
    /\ UNCHANGED << datas, showing_index_end, showing_records, x_scrolling,
                    redraw_scheduled, redraw_y_scheduled, fit_timers,
                    y_min, y_max, y_range >>
redraw_begin ==
    /\ redraw_timers > 0
    /\ ~redrawing
    /\ redraw_timers' = redraw_timers - 1
    /\ redraw_scheduled' = FALSE
    /\ redrawing' = TRUE
    /\ UNCHANGED << datas, showing_index_end, showing_records, x_scrolling,
                    redraw_y_scheduled, fit_timers, y_min, y_max, y_range >>

\* ... and the rest of redraw() runs (legacy/main.py 153-175)
redraw_rest ==
    /\ redrawing
    /\ redrawing' = FALSE
    /\ redraw_selected
    /\ UNCHANGED << datas, showing_index_end, redraw_scheduled, redraw_timers,
                    y_min, y_max, y_range >>

\* _fit_y_range(), run by its single-shot timer.  With nothing recorded
\* calculate_new_y_range(None) raises and the range is left as it was.
_fit_y_range_keeps_flag ==
    LET records == redraw_y_scheduled
    IN  /\ fit_timers > 0
        /\ fit_timers' = fit_timers - 1
        /\ IF records = << >>
           THEN UNCHANGED << y_min, y_max, y_range >>
           ELSE \E new \in { calculate_new_y_range(records) } :
                    /\ y_min' = new[1]
                    /\ y_max' = new[2]
                    /\ y_range' = RatSub(new[2], new[1])
        /\ UNCHANGED << datas, showing_index_end, showing_records, x_scrolling,
                        redraw_scheduled, redraw_timers, redrawing, redraw_y_scheduled >>
_fit_y_range ==
    LET records == redraw_y_scheduled
    IN  /\ fit_timers > 0
        /\ fit_timers' = fit_timers - 1
        /\ redraw_y_scheduled' = << >>
        /\ IF records = << >>
           THEN UNCHANGED << y_min, y_max, y_range >>
           ELSE \E new \in { calculate_new_y_range(records) } :
                    /\ y_min' = new[1]
                    /\ y_max' = new[2]
                    /\ y_range' = RatSub(new[2], new[1])
        /\ UNCHANGED << datas, showing_index_end, showing_records, x_scrolling,
                        redraw_scheduled, redraw_timers, redrawing >>

\* CandlestickView.__init__
InitView ==
    /\ datas = << >>
    /\ showing_index_end = 0
    /\ showing_records = << >>
    /\ x_scrolling = << 0, 0, 5 >>
    /\ redraw_scheduled = FALSE /\ redraw_timers = 0 /\ redrawing = FALSE
    /\ redraw_y_scheduled = << >> /\ fit_timers = 0
    /\ y_min = RatInt(1) /\ y_max = RatInt(1) /\ y_range = RatInt(1)

\* ---------------------------------------------- drawer over a data source
\* A behaviour follows one drawer (CandleDrawer or BarDrawer, use_cache
\* set or not) constructed over its own, initially empty, data source.
InitDrawers ==
    /\ data_list = [d \in Drawers |-> << >>]
    /\ use_cache \in [Drawers -> BOOLEAN]
    /\ _cache_end = [d \in Drawers |-> 0]
    /\ _cache_raising = [d \in { CANDLE, CANDLE_PY } |-> << >>]
    /\ _cache_falling = [d \in { CANDLE, CANDLE_PY } |-> << >>]
    /\ _cache_positive = << >> /\ _cache_negative = << >>
    /\ painter = NoPaint
    /\ plain_painter = NoPlain

\* ExtraDrawConfig(): window [0, 0), range (0, 1), the four paddings;
\* BarChartWidget.__init__ then sets the window to [0, 10)
ExtraDrawConfig ==
    [begin |-> 0, end |-> 0, y_low |-> RatInt(0), y_high |-> RatInt(1),
     y_scale |-> y_scale, paddings |-> << padding, padding, padding, padding >>,
     has_showing_data |-> 0, drawing_cache |-> << >>]
InitWidget ==
    /\ _draw_config = [ExtraDrawConfig EXCEPT !.begin = 0, !.end = 10]
    /\ _drawers = << >>
    /\ rect = << widget_width, widget_height >>
    /\ frame = NoFrame

\* the helper of BarChartWidget's x axis before it prepared anything, on a
\* fresh painter
InitAxisHelper(orientation, tick_type, tick_count) ==
    /\ axis = [orientation |-> orientation, tick_type |-> tick_type,
               tick_count |-> tick_count]
    /\ generator = [pc |-> "idle", i |-> FloatOfInt(0), end |-> 0,
                    step |-> FloatOfInt(0), values |-> << >>]
    /\ _tick_for_values = << >>
    /\ _bars = << >>
    /\ worldTransform = fromTranslate(RatInt(0), RatInt(0))
    /\ _last_transform = << >>
    /\ label = [pc |-> "idle", drawn |-> 0]
InitAxis ==
    /\ InitAxisHelper(HORIZONTAL, TICK_VALUE, 10)
    /\ axis_config = [begin |-> 0, end |-> 10, y_low |-> 0, y_high |-> 1]

Init ==
    /\ attached \in { {d} : d \in Drawers }
    /\ InitDrawers
    /\ \A d \in Drawers \ attached : use_cache[d]
    /\ InitWidget
    /\ InitView
    /\ InitAxis

AppendData == \E d \in Drawers : \E x \in Items(d) : append(d, x)
ClearData == \E d \in Drawers : clear(d)
DataRemoved == \E d \in Drawers : \E b, e \in Windows : data_removed(d, b, e)
DrawSeries == \E d \in Drawers : \E b, e \in Windows : draw(d, b, e)
SetItem == \E d \in Drawers : \E k \in 1..MaxLen : \E x \in Items(d) : set_item(d, k, x)
InsertItem == \E d \in Drawers : \E k \in 1..MaxLen : \E x \in Items(d) : insert_item(d, k, x)
RemoveItem == \E d \in Drawers : \E k \in 1..MaxLen : remove_item(d, k)

Next == AppendData \/ ClearData \/ DataRemoved \/ DrawSeries
Spec == Init /\ [][Next]_vars

\* the same drawers over list-like sources that are also changed in place
NextRaw == AppendData \/ ClearData \/ DataRemoved \/ DrawSeries
           \/ SetItem \/ InsertItem \/ RemoveItem
SpecRaw == Init /\ [][NextRaw]_vars

\* ------------------------------------------------ the chart widget's frames
\* A BarChartWidget with the two Drawer.py drawers constructed (use_cache
\* at its default), each over its own source; series are registered, data
\* is appended, the window is moved and frames are painted in any order.
InitChart ==
    /\ attached = DrawerPy
    /\ InitDrawers
    /\ \A d \in Drawers : use_cache[d]
    /\ InitWidget
    /\ InitView
    /\ InitAxis

\* the items fed to the chart's sources: the two candles of the documented
\* scenario, a negative and a positive scalar
ChartItems(d) == IF IsCandle(d)
                 THEN { CandleData(10, 9, 13, 12), CandleData(12, 10, 13, 11) }
                 ELSE { -1, 2 }
ChartItemCount == Len(data_list[CANDLE]) + Len(data_list[BAR])

AppendChart == \E d \in DrawerPy : \E x \in ChartItems(d) :
                    ChartItemCount < MaxChartItems /\ append(d, x)
AddDrawer == \E d \in DrawerPy : add_drawer(d)
SetXRange == \E b, e \in 0..MaxWindow : set_x_range(b, e)
PaintEvent == paintEvent

NextChart == AppendChart \/ AddDrawer \/ SetXRange \/ PaintEvent
SpecChart == InitChart /\ [][NextChart]_vars

\* --------------------------------------------- frames that are interrupted
\* The widget in one of three layouts, shown after its two series were
\* registered and their sources filled; the window is moved also while a
\* frame is between two of its steps.

\* <<widget size, paddings (left, top, right, bottom)>>: the default
\* layout, the paddings AdvancedBarChart gives a sub chart, and a widget
\* as small as its paddings
Layouts == { << << widget_width, widget_height >>, ExtraDrawConfig.paddings >>,
             << << widget_width, widget_height >>, << 80, 0, 10, 20 >> >>,
             << << 2 * padding, 2 * padding >>, ExtraDrawConfig.paddings >> }

\* the sources after append() of the chart's items, nothing drawn yet
FilledSources ==
    [d \in Drawers |->
        IF d = CANDLE THEN << CandleData(10, 9, 13, 12), CandleData(12, 10, 13, 11) >>
        ELSE IF d = BAR THEN << -1, 2 >>
        ELSE << >>]

InitFrame ==
    /\ attached = DrawerPy
    /\ data_list = FilledSources
    /\ use_cache = [d \in Drawers |-> TRUE]
    /\ _cache_end = [d \in Drawers |-> 0]
    /\ _cache_raising = [d \in { CANDLE, CANDLE_PY } |-> << >>]
    /\ _cache_falling = [d \in { CANDLE, CANDLE_PY } |-> << >>]
    /\ _cache_positive = << >> /\ _cache_negative = << >>
    /\ painter = NoPaint
    /\ plain_painter = NoPlain
    /\ \E layout \in Layouts :
        /\ rect = layout[1]
        /\ _draw_config = [ExtraDrawConfig EXCEPT !.begin = 0, !.end = 10,
                                                  !.paddings = layout[2]]
    /\ _drawers = << CANDLE, BAR >>
    /\ frame = NoFrame
    /\ InitView
    /\ InitAxis

PaintEventBegin == paintEvent_begin
PaintEventPrepareDraw == paintEvent_prepare_draw
PaintEventEnd == paintEvent_end

NextFrame == SetXRange
             \/ PaintEventBegin \/ PaintEventPrepareDraw \/ PaintEventEnd
SpecFrame == InitFrame /\ [][NextFrame]_vars

\* ------------------------------------------------- the legacy view's timers
\* Records are appended, the view is scrolled, and the two kinds of
\* single-shot timers fire in any order.
InitLegacy ==
    /\ attached = { }
    /\ InitDrawers
    /\ \A d \in Drawers : use_cache[d]
    /\ InitWidget
    /\ InitView
    /\ InitAxis

drawerVars == << attached, data_list, use_cache, cacheVars, painter, plain_painter >>
AppendRecord == \E b \in Bars : append_record(b) /\ UNCHANGED << drawerVars, chartVars, axisVars >>
SetShowingIndexEnd == \E k \in -1..1 : set_showing_index_end(k)
                                        /\ UNCHANGED << drawerVars, chartVars, axisVars >>
Redraw == redraw /\ UNCHANGED << drawerVars, chartVars, axisVars >>
FitYRange == _fit_y_range /\ UNCHANGED << drawerVars, chartVars, axisVars >>

NextLegacy == AppendRecord \/ SetShowingIndexEnd \/ Redraw \/ FitYRange
SpecLegacy == InitLegacy /\ [][NextLegacy]_vars

\* Single-shot timers are delivered by the event loop: one that is started
\* fires after its interval, and a handler that was entered runs to its end.
SpecLegacyFair == SpecLegacy /\ WF_vars(Redraw) /\ WF_vars(FitYRange)

\* the same view with callers of schedule_redraw running also between the
\* flag reset of redraw() and its return
RedrawBegin == redraw_begin /\ UNCHANGED << drawerVars, chartVars, axisVars >>
RedrawRest == redraw_rest /\ UNCHANGED << drawerVars, chartVars, axisVars >>
NextRedraw == AppendRecord \/ SetShowingIndexEnd \/ RedrawBegin \/ RedrawRest
              \/ FitYRange
SpecRedrawFair == InitLegacy /\ [][NextRedraw]_vars
                  /\ WF_vars(RedrawBegin) /\ WF_vars(RedrawRest) /\ WF_vars(FitYRange)

\* -------------------------------------------------- the axes' tick helpers
\* An axis of either orientation and tick type with any tick_count but 0
\* is given a config with any range, prepares its ticks and draws their
\* labels, each at some position; drawing a label may raise.
InitTicks ==
    /\ attached = { }
    /\ InitDrawers
    /\ \A d \in Drawers : use_cache[d]
    /\ InitWidget
    /\ InitView
    /\ \E orientation \in { HORIZONTAL, VERTICAL }, tick_type \in { TICK_VALUE, TICK_BAR },
          tick_count \in (-MaxTickCount..MaxTickCount) \ { 0 } :
            InitAxisHelper(orientation, tick_type, tick_count)
    /\ \E begin, end \in 0..MaxAxis :
            axis_config = IF axis.orientation = HORIZONTAL
                          THEN [begin |-> begin, end |-> end, y_low |-> 0, y_high |-> 1]
                          ELSE [begin |-> 0, end |-> 10, y_low |-> begin, y_high |-> end]

PrepareDrawAxis == prepare_draw_axis /\ UNCHANGED << drawerVars, chartVars, legacyVars >>
GenerateSequence == _generate_sequence /\ UNCHANGED << drawerVars, chartVars, legacyVars >>
DrawTicks == \E pos \in { << 78, 401 >>, << 320, 403 >> } : \E raises \in BOOLEAN :
                draw_ticks(pos, raises) /\ UNCHANGED << drawerVars, chartVars, legacyVars >>

NextTicks == PrepareDrawAxis \/ GenerateSequence \/ DrawTicks
SpecTicks == InitTicks /\ [][NextTicks]_vars

\* ================================================================ claims
Range(f) == { f[k] : k \in DOMAIN f }
Bucket(d, which) == IF which = "a" THEN CacheOf(d).a ELSE CacheOf(d).b
\* the 1-based slots of item i (0-based)
SlotsOf(d, i) == (SlotsPerItem(d) * i + 1)..(SlotsPerItem(d) * (i + 1))
\* the shape that belongs in 1-based slot s of a drawer over source, for the
\* bucket of growing/positive items (inA) or the other one
ExpectedSlot(d, source, s, inA) ==
    LET i == (s - 1) \div SlotsPerItem(d)
        data == source[i + 1]
    IN  IF IsCandle(d)
        THEN IF (data.close >= data.open) # inA THEN None
             ELSE IF s % 2 = 1
                  THEN Some(QRectF(i * Unit + 25, Min2(data.open, data.close) * Unit, 950,
                                   Max2(Abs(data.open - data.close) * Unit, 10)))
                  ELSE Some(QRectF(i * Unit + 425, data.low * Unit, 150,
                                   Max2((data.high - data.low) * Unit, 10)))
        ELSE IF (data > 0) # inA THEN None
             ELSE Some(QRectF(i * Unit, Min2(0, data) * Unit, 1000, Abs(data) * Unit))
ExpectedBucket(d, source, inA) ==
    [s \in 1..(SlotsPerItem(d) * Len(source)) |-> ExpectedSlot(d, source, s, inA)]
\* the drawer's buckets hold exactly the shapes of the source's contents
BucketsMatch(d, source) ==
    /\ CacheOf(d).a = ExpectedBucket(d, source, TRUE)
    /\ CacheOf(d).b = ExpectedBucket(d, source, FALSE)
InRange(begin, end, source) == 0 <= begin /\ begin <= end /\ end <= Len(source)

\* C1: for every draw call of the cached CandleDrawer of Drawer.py with
\* 0 <= begin <= end <= len(data source), the set of (brush, rectangle)
\* pairs it draws equals the set the uncached CandleDrawer of
\* CandleDrawer.py draws for the same data and window.
C1_CachedDrawsWhatUncachedDraws ==
    (/\ painter.drawer = CANDLE
     /\ use_cache[CANDLE]
     /\ InRange(painter.begin, painter.end, data_list[CANDLE]))
    => /\ ~plain_painter.raised
       /\ Range(painter.calls) = Range(plain_painter.rects)
\* a two-item window drawn from the cache with both brushes in use
C1_Witness ==
    /\ painter.drawer = CANDLE /\ use_cache[CANDLE]
    /\ painter.begin = 0 /\ painter.end = 2 /\ Len(data_list[CANDLE]) = 2
    /\ Len(painter.calls) = 4
    /\ \E k \in 1..4 : painter.calls[k].brush = "red"
    /\ \E k \in 1..4 : painter.calls[k].brush = "green"

\* C2: for every index i < _cache_end of a Drawer.py drawer, each slot of i
\* holds a rectangle in exactly one of the two buckets and None in the
\* other.
C2_BucketAlignment ==
    \A d \in DrawerPy : \A i \in 0..(_cache_end[d] - 1) : \A s \in SlotsOf(d, i) :
        /\ s <= Len(CacheOf(d).a) /\ s <= Len(CacheOf(d).b)
        /\ (CacheOf(d).a[s] = None) # (CacheOf(d).b[s] = None)
\* both buckets of a candle cache hold shapes, and a bar cache is filled
C2_Witness ==
    \/ /\ _cache_end[CANDLE] = 2
       /\ _cache_raising[CANDLE][1] # None /\ _cache_falling[CANDLE][3] # None
    \/ /\ _cache_end[BAR] = 2
       /\ _cache_positive[1] # None /\ _cache_negative[2] # None

\* C3: after any sequence of append, clear and draw on a source with a
\* Drawer.py drawer, _cache_end <= len(data source) and both buckets have
\* length 2 * _cache_end (candles) or _cache_end (bars).
C3_WatermarkAndLengths ==
    \A d \in DrawerPy :
        /\ _cache_end[d] <= Len(data_list[d])
        /\ Len(CacheOf(d).a) = SlotsPerItem(d) * _cache_end[d]
        /\ Len(CacheOf(d).b) = SlotsPerItem(d) * _cache_end[d]
\* data appended after a draw: the watermark is behind the source
C3_Witness ==
    \E d \in DrawerPy : _cache_end[d] >= 1 /\ _cache_end[d] < Len(data_list[d])

\* C4: a removal notification for any range, DataSource.clear() included,
\* leaves every Drawer.py drawer with _cache_end = 0 and empty buckets; a
\* draw then leaves in the cache the shapes of the current data only.
C4_FullInvalidation ==
    /\ [][\A d \in DrawerPy :
            ((\E b, e \in Windows : data_removed(d, b, e)) \/ clear(d))
            => (CacheOf(d) = Cache(<< >>, << >>, 0))']_vars
    /\ [](\A d \in DrawerPy :
            painter.drawer = d =>
                /\ _cache_end[d] = Len(data_list[d])
                /\ BucketsMatch(d, data_list[d]))
\* an invalidated cache over a source that still holds data
C4_Witness ==
    \E d \in DrawerPy :
        /\ d \in attached /\ use_cache[d] /\ painter = NoPaint
        /\ _cache_end[d] = 0 /\ CacheOf(d).a = << >> /\ CacheOf(d).b = << >>
        /\ Len(data_list[d]) = 2

\* C5: with use_cache set, a draw that directly follows a draw (no append
\* or clear in between) leaves _cache_end and both buckets as they were.
C5_SecondDrawIdempotent ==
    [][\A d \in Drawers :
        (painter.drawer = d /\ use_cache[d] /\ \E b, e \in Windows : draw(d, b, e))
        => UNCHANGED cacheVars]_vars
\* a drawn, fully cached source: the state a second draw starts from
C5_Witness ==
    \E d \in DrawerPy :
        /\ painter.drawer = d /\ use_cache[d]
        /\ _cache_end[d] = 2 /\ Len(data_list[d]) = 2

\* C6: with use_cache unset, after every draw the buckets hold exactly the
\* shapes of the source's current contents (k * len slots each), also when
\* the list was changed in place since the previous draw.
C6_NoCacheRebuilds ==
    \A d \in Drawers :
        (painter.drawer = d /\ ~use_cache[d]) => BucketsMatch(d, data_list[d])
\* a draw without the cache whose source is shorter than the old watermark
C6_Witness ==
    \E d \in Drawers :
        /\ painter.drawer = d /\ ~use_cache[d]
        /\ Len(data_list[d]) = 1
        /\ Len(CacheOf(d).a) = SlotsPerItem(d)

\* C7: a cached candle is in the growing bucket iff close >= open, a cached
\* scalar bar is in the positive bucket iff value > 0.
C7_Classification ==
    /\ \A i \in 1..Min2(_cache_end[CANDLE], Len(data_list[CANDLE])) :
        /\ (_cache_raising[CANDLE][2 * i - 1] # None)
                <=> (data_list[CANDLE][i].close >= data_list[CANDLE][i].open)
        /\ (_cache_falling[CANDLE][2 * i - 1] # None)
                <=> (data_list[CANDLE][i].close < data_list[CANDLE][i].open)
    /\ \A i \in 1..Min2(_cache_end[BAR], Len(data_list[BAR])) :
        /\ (_cache_positive[i] # None) <=> (data_list[BAR][i] > 0)
        /\ (_cache_negative[i] # None) <=> (data_list[BAR][i] <= 0)
\* a cached candle with close = open, or a cached bar of value 0
C7_Witness ==
    \/ \E i \in 1..Min2(_cache_end[CANDLE], Len(data_list[CANDLE])) :
        /\ data_list[CANDLE][i].close = data_list[CANDLE][i].open
        /\ _cache_raising[CANDLE][2 * i - 1] # None
    \/ \E i \in 1..Min2(_cache_end[BAR], Len(data_list[BAR])) :
        /\ data_list[BAR][i] = 0 /\ _cache_negative[i] # None

\* the 1-based positions of drawer d's items inside the window [begin, end)
VisibleIdx(d, begin, end) ==
    { i \in 1..Len(data_list[d]) : begin < i /\ i <= end }
LowOf(d, i) == IF IsCandle(d) THEN data_list[d][i].low ELSE data_list[d][i]
HighOf(d, i) == IF IsCandle(d) THEN data_list[d][i].high ELSE data_list[d][i]
Registered == { _drawers[k] : k \in DOMAIN _drawers }
SetMin(S) == CHOOSE v \in S : \A w \in S : v <= w
SetMax(S) == CHOOSE v \in S : \A w \in S : v >= w
\* the frame just painted found data of every registered series in its window
FrameWithData ==
    /\ painter.drawer = FRAME
    /\ _draw_config.begin < _draw_config.end
    /\ _drawers # << >>
    /\ \A d \in Registered :
            VisibleIdx(d, _draw_config.begin, _draw_config.end) # { }

\* C8: for a frame whose window holds data of every registered series, with
\* L the lowest and H the highest visible value over all series, the
\* committed range has midpoint (L + H) / 2 and span (H - L) * y_scale.
C8_ViewportCentering ==
    FrameWithData =>
        LET b == _draw_config.begin
            e == _draw_config.end
            L == SetMin({ LowOf(d, i) : <<d, i>> \in
                     { <<d, i>> \in Registered \X (1..MaxChartItems) :
                            i \in VisibleIdx(d, b, e) } })
            H == SetMax({ HighOf(d, i) : <<d, i>> \in
                     { <<d, i>> \in Registered \X (1..MaxChartItems) :
                            i \in VisibleIdx(d, b, e) } })
        IN  /\ RatDiv(RatAdd(_draw_config.y_low, _draw_config.y_high), RatInt(2))
                    = Rat(L + H, 2)
            /\ RatSub(_draw_config.y_high, _draw_config.y_low)
                    = RatMul(RatInt(H - L), << 11, 10 >>)
\* a frame over a candle series and a bar series, the lowest value (-1)
\* from the bars and the highest (13) from the candles: range (-1.7, 13.7)
C8_Witness ==
    /\ FrameWithData
    /\ Registered = { CANDLE, BAR }
    /\ _draw_config.y_low = << -17, 10 >>
    /\ _draw_config.y_high = << 137, 10 >>

SeriesCalls == { k \in DOMAIN painter.calls :
                    painter.calls[k].op \in { "prepare_draw", "draw" } }

\* C9: a frame whose window is empty or inverted (end <= begin) fits no
\* range and draws no series, and leaves the committed [y_low, y_high] as
\* the previous frame committed it.
C9_EmptyWindowSkipped ==
    [][(paintEvent /\ _draw_config.end <= _draw_config.begin)
        => /\ _draw_config'.y_low = _draw_config.y_low
           /\ _draw_config'.y_high = _draw_config.y_high
           /\ SeriesCalls' = { }]_vars

\* C10: at most one delayed y-range commit is pending at any moment.
C10_OnePendingFit == fit_timers <= 1
\* a commit is pending while a later redraw has already shown other records
C10_Witness ==
    /\ fit_timers = 1
    /\ redraw_y_scheduled # << >>
    /\ showing_records # redraw_y_scheduled
    /\ showing_records # << >>

\* redraw() gets as far as its y-range request (legacy/main.py 172)
RequestMade ==
    /\ redraw
    /\ Min2(Len(datas), days_to_show) >= 2
    /\ records_to_show # << >>

\* C11: when requests arrive while a delayed commit is pending, the commit
\* that fires uses the visible records of the most recent request (the
\* records the view shows), not those of the first.
C11_LatestRequestCommitted ==
    [][(_fit_y_range /\ redraw_y_scheduled # << >>)
        => /\ y_min' = calculate_new_y_range(showing_records)[1]
           /\ y_max' = calculate_new_y_range(showing_records)[2]]_vars

\* C12: a request whose new range leaves the committed bounds, or whose
\* span differs from the committed span by more than the threshold, is
\* committed within the requesting call; every other request is recorded
\* and one delayed commit is scheduled for it.
C12_ImmediateOrDelayed ==
    [][RequestMade
        => IF NeedsFit(records_to_show)
           THEN /\ y_min' = calculate_new_y_range(records_to_show)[1]
                /\ y_max' = calculate_new_y_range(records_to_show)[2]
           ELSE /\ redraw_y_scheduled' = records_to_show
                /\ fit_timers' = 1]_vars

\* a caller of schedule_redraw runs
ScheduleRedrawCalled ==
    \/ \E b \in Bars : append_record(b)
    \/ \E k \in -1..1 : set_showing_index_end(k)

\* C13: at most one redraw timer is pending at any moment, and a
\* schedule_redraw made while redraw_scheduled is set starts no timer and
\* leaves redraw_scheduled set.
C13_OnePendingRedraw ==
    /\ [](redraw_timers <= 1)
    /\ [][(redraw_scheduled /\ ScheduleRedrawCalled)
            => /\ redraw_timers' = redraw_timers
               /\ redraw_scheduled']_vars
\* two records were appended before the one pending redraw ran
C13_Witness ==
    /\ redraw_scheduled
    /\ redraw_timers = 1
    /\ Len(datas) = 2
    /\ showing_records = << >>

\* the positions of the painted frame's calls of one kind
CallsOf(op) == { k \in DOMAIN painter.calls : painter.calls[k].op = op }
\* every call of kind first comes before every call of kind second
Before(first, second) == \A i \in CallsOf(first) : \A j \in CallsOf(second) : i < j

\* C14: in a frame with data to show the steps come in the order: range
\* fit, all grid lines, all series, all tick labels, the border; no tick
\* label is drawn before a series and no grid line after one.
C14_PaintOrder ==
    (painter.drawer = FRAME /\ _draw_config.has_showing_data # 0)
        => /\ Before("prepare_draw", "draw_grid")
           /\ Before("draw_grid", "draw")
           /\ Before("draw", "draw_labels")
           /\ Before("draw_labels", "drawRect")

\* C17: add_drawer of a series that is already registered leaves the list
\* of registered series as it was: no series is registered (and so drawn
\* per frame) more than once.
C17_AddDrawerIdempotent ==
    \A i, j \in DOMAIN _drawers : _drawers[i] = _drawers[j] => i = j

\* C15: after set_x_range(b, e) the live window stays [b, e) until the next
\* set_x_range, so the next frame that starts draws it, also when the call
\* came while a frame was in progress; the frame in progress draws the
\* window of its own copy.
C15_WindowUpdateKept ==
    [][paintEvent_end
        => /\ _draw_config'.begin = _draw_config.begin
           /\ _draw_config'.end = _draw_config.end
           /\ painter'.begin = frame.config.begin
           /\ painter'.end = frame.config.end]_vars

\* C16: a series' prepare_draw called by the frame leaves the frame's
\* config, the widget's live config, every data source and every geometry
\* cache (_cache_end and the buckets) as they were.
C16_PrepareDrawFrame ==
    [][paintEvent_prepare_draw
        => /\ frame'.config = frame.config
           /\ UNCHANGED << _draw_config, data_list, cacheVars >>]_vars
\* a series returned a range other than the frame's while a cache is filled
C16_Witness ==
    /\ frame.pc = "prepare"
    /\ Len(frame.preferred_configs) >= 1
    /\ frame.preferred_configs[1].y_low # frame.config.y_low
    /\ \E d \in DrawerPy : _cache_end[d] > 0

\* a frame was painted and nothing has happened since: _draw_config is the
\* frame's config with its DrawingCache
FramePainted == painter.drawer = FRAME /\ frame.pc = "idle"

\* C18: for a non-empty window, a range with y_high > y_low and a plot area
\* of positive size, the forward transform takes (begin, y_low) to the
\* plot area's bottom left corner and (end, y_high) to its top right
\* corner, scaling x by plotW / (end - begin) and y by plotH / (y_high - y_low).
C18_CornerToCorner ==
    LET config == _draw_config
        T == config.drawing_cache.drawer_transform
        plot == config.drawing_cache.plot_area
    IN  (/\ FramePainted
         /\ config.begin < config.end
         /\ RatLt(config.y_low, config.y_high)
         /\ plot.width > 0 /\ plot.height > 0)
        => /\ map(T, << RatInt(config.begin), config.y_low >>)
                = << RatInt(plot.left), RatInt(plot.top + plot.height) >>
           /\ map(T, << RatInt(config.end), config.y_high >>)
                = << RatInt(plot.left + plot.width), RatInt(plot.top) >>
           /\ T.m11 = RatDiv(RatInt(plot.width), RatInt(config.end - config.begin))
           /\ RatSub(RatInt(0), T.m22)
                = RatDiv(RatInt(plot.height), RatSub(config.y_high, config.y_low))

\* C19: under the forward transform of any frame, of two data points with
\* the same x the one with the smaller y has the strictly greater device y.
C19_VerticalFlip ==
    FramePainted =>
        LET T == _draw_config.drawing_cache.drawer_transform
            x == RatInt(_draw_config.begin)
        IN  \A y1, y2 \in { -1, 0, 13 } :
                y1 < y2 => RatLt(map(T, << x, RatInt(y2) >>)[2],
                                 map(T, << x, RatInt(y1) >>)[2])

\* C20: in the DrawingCache of any frame, ui_transform undoes
\* drawer_transform: a corner of drawer_area mapped forward and then back
\* is the same point.
C20_RoundTrip ==
    FramePainted =>
        LET cache == _draw_config.drawing_cache
            area == cache.drawer_area
        IN  \A p \in { << RatInt(area.left), area.top >>,
                       << RatInt(area.left + area.width), RatAdd(area.top, area.height) >> } :
                map(cache.ui_transform, map(cache.drawer_transform, p)) = p

\* C21: the transform of any frame is invertible: no scale of it is 0,
\* because a zero width or height of the data rectangle or of the plot
\* rectangle is floored to 1 before use.
C21_TransformNeverSingular ==
    FramePainted =>
        LET T == _draw_config.drawing_cache.drawer_transform
        IN  T.m11[1] # 0 /\ T.m22[1] # 0

\* C27: a frame painted right after another frame, with no change to the
\* sources, the registered series or the window in between, commits the
\* same [y_low, y_high] as the frame before it, also when the non-empty
\* window holds no item of some registered series.
C27_RepaintStable ==
    [][(/\ painter.drawer = FRAME
        /\ _draw_config.begin < _draw_config.end
        /\ paintEvent)
        => /\ _draw_config'.y_low = _draw_config.y_low
           /\ _draw_config'.y_high = _draw_config.y_high]_vars

\* C28: for the CandleDrawer of Candle.py with use_cache set, _cache_end
\* never exceeds the length of the data source and every cached slot of an
\* index i < _cache_end holds the shape of the item now stored at i, so
\* that no shape of an item removed by clear() is left to be drawn.
C28_CandlePyCacheFresh ==
    (CANDLE_PY \in attached /\ use_cache[CANDLE_PY])
    => /\ _cache_end[CANDLE_PY] <= Len(data_list[CANDLE_PY])
       /\ \A s \in 1..(2 * _cache_end[CANDLE_PY]) :
            /\ _cache_raising[CANDLE_PY][s]
                    = ExpectedSlot(CANDLE_PY, data_list[CANDLE_PY], s, TRUE)
            /\ _cache_falling[CANDLE_PY][s]
                    = ExpectedSlot(CANDLE_PY, data_list[CANDLE_PY], s, FALSE)

\* C24: a draw of a Drawer.py drawer whose window leaves [0, len(data
\* source)) fails with an error: a draw that returned and handed shapes to
\* the painter had 0 <= begin and end <= len.
C24_OutOfRangeFailsFast ==
    \A d \in DrawerPy :
        painter.drawer = d
            => 0 <= painter.begin /\ painter.end <= Len(data_list[d])

\* C25: for a window that holds data, the [y_low, y_high] a Drawer.py
\* series returns from prepare_draw covers the vertical extent of every
\* rectangle its draw call draws for that window.
C25_PreparedRangeCoversShapes ==
    \A d \in DrawerPy :
        (painter.drawer = d
         /\ PySlice(data_list[d], painter.begin, painter.end) # << >>)
        => LET returned == prepare_draw(d, [ExtraDrawConfig EXCEPT
                                !.begin = painter.begin, !.end = painter.end])
           IN  \A k \in DOMAIN painter.calls :
                /\ returned.y_low[1] * Unit <= painter.calls[k].rect.y
                /\ painter.calls[k].rect.y + painter.calls[k].rect.h
                        <= returned.y_high[1] * Unit

\* C26: the pending flag of the y-range fitter is set exactly while one
\* _fit_y_range timer is outstanding; the timer's handler clears the flag
\* and commits the range of the recorded records; and with timers that are
\* delivered a set flag is always cleared again, after which a request that
\* leaves the committed range is scheduled anew.
C26_FitterCycle ==
    /\ [](fit_timers = IF redraw_y_scheduled # << >> THEN 1 ELSE 0)
    /\ [][_fit_y_range
            => /\ redraw_y_scheduled' = << >>
               /\ y_min' = calculate_new_y_range(redraw_y_scheduled)[1]
               /\ y_max' = calculate_new_y_range(redraw_y_scheduled)[2]]_vars
    /\ ((redraw_y_scheduled # << >>) ~> (redraw_y_scheduled = << >>))
\* a fit is scheduled again after an earlier one was committed
C26_Witness ==
    /\ redraw_y_scheduled # << >>
    /\ fit_timers = 1
    /\ y_min # RatInt(1)

\* C29: every caller of schedule_redraw returns with one redraw timer
\* outstanding, whether a redraw was already scheduled or redraw() was
\* running, and with timers that are delivered an outstanding timer always
\* fires: a redraw starts after the call.
C29_NoRedrawRequestLost ==
    /\ [][ScheduleRedrawCalled => redraw_timers' = 1]_vars
    /\ ((redraw_timers = 1) ~> (redraw_timers = 0))
\* a record was appended while redraw() was running, and a new redraw is
\* scheduled for it
C29_Witness ==
    /\ redrawing
    /\ redraw_scheduled
    /\ redraw_timers = 1

\* the range an axis takes from its config
AxisBegin == IF axis.orientation = HORIZONTAL THEN axis_config.begin ELSE axis_config.y_low
AxisEnd == IF axis.orientation = HORIZONTAL THEN axis_config.end ELSE axis_config.y_high

\* C22: a value axis with tick_count = n >= 1 over a range with begin < end
\* has all its ticks in [begin, end), each tick one step = (end - begin) / n
\* after the tick before it; a horizontal axis has the n ticks that start
\* with begin, a vertical axis the n - 1 ticks that start with begin + step.
C22_ValueTicks ==
    (/\ generator.pc = "done"
     /\ axis.tick_type = TICK_VALUE
     /\ axis.tick_count >= 1
     /\ AxisBegin < AxisEnd)
    => LET ticks == _tick_for_values
           first == IF axis.orientation = HORIZONTAL
                    THEN FloatOfInt(AxisBegin)
                    ELSE FloatAdd(FloatOfInt(AxisBegin), generator.step)
       IN  /\ generator.step = FloatTrueDiv(AxisEnd - AxisBegin, axis.tick_count)
           /\ \A k \in DOMAIN ticks :
                /\ ~FloatLt(ticks[k], FloatOfInt(AxisBegin))
                /\ FloatLt(ticks[k], FloatOfInt(AxisEnd))
                /\ k > 1 => ticks[k] = FloatAdd(ticks[k - 1], generator.step)
           /\ ticks # << >> => ticks[1] = first
           /\ Len(ticks) = IF axis.orientation = HORIZONTAL
                           THEN axis.tick_count ELSE axis.tick_count - 1

\* C23: after a tick label was drawn, whether draw_tick_for_value returned
\* or raised, the painter's world transform is the one it had before
\* _switch_to_pos moved it to the label.
C23_TransformRestored ==
    label.pc \in { "drawn", "raised" } => worldTransform = _last_transform

\* C30: _generate_sequence yields finitely many values for every range and
\* every tick_count but 0: whenever it yields a value (i < end), adding the
\* step moves i up, and only finitely many floats lie between i and end.
C30_TickGenerationTerminates ==
    (generator.pc = "running" /\ FloatLt(generator.i, FloatOfInt(generator.end)))
        => FloatLt(generator.i, FloatAdd(generator.i, generator.step))
====
